---- MODULE Spec2Model ----
(***************************************************************************)
(* State-machine model of SystematicReviewTool (src/main.py): the article  *)
(* list, the review cursor, the two decision lists, the Start Search       *)
(* button and the background search thread, with the handlers bound to     *)
(* the buttons as actions and the thread's statements as steps.            *)
(***************************************************************************)
EXTENDS Integers, Sequences, FiniteSets, TLC

\* ------------------------------------------------------------------ bounds
\* most records the two sources deliver to one search (PubMed records plus
\* Cochrane CSV rows)
MaxBatch == 2
\* most decision snapshots recorded over a run
MaxDecisions == 2
VARIABLES
    all_articles,       \* self.all_articles: sequence of article dicts (or None)
    current_index,      \* self.current_index (0-based)
    included_articles,  \* self.included_articles: sequence of snapshots
    excluded_articles,  \* self.excluded_articles: sequence of snapshots
    search_button,      \* state of self.search_button: "normal" | "disabled"
    progress,           \* self.progress_var
    pc,                 \* position of the perform_search thread ("idle": none)
    w_max_results,      \* max_results argument of the thread, while it is in use
    search_threads,     \* perform_search threads started and not yet ended
    calls,              \* source calls the running thread has made, in order
    search_results_csv, \* history: the Sr_No column that the latest search
                        \* wrote to 'search_results.csv'
    BIOPYTHON_AVAILABLE, \* module constant: `from Bio import Entrez` worked
    request,            \* what start_search read from the form, until the
                        \* next handler or thread step
    exported,           \* the file an export handler wrote, until the next
                        \* handler or thread step
    keywords_var,       \* self.keywords_var: the text of the keywords entry
    inclusion_keywords, \* self.inclusion_keywords: list of keywords
    abstract_text,      \* the text display_current_article hands to
                        \* insert_text_with_highlights
    article_display,    \* what was inserted into self.article_display for
                        \* that text: the parts with their tags
    lastOp,             \* the handler that ran last ("perform_search": a thread step)
    report,             \* what that handler surfaced: messagebox or traceback
    decisions,          \* history: decisions recorded since the list was replaced
    verdicts,           \* history: per index, verdict of the latest decision
    midflight           \* history: one of those decisions was taken while a
                        \* search thread was running

session == <<all_articles, current_index, included_articles, excluded_articles>>
worker  == <<search_button, progress, pc, w_max_results, search_threads, calls>>
platform == <<search_results_csv, BIOPYTHON_AVAILABLE>>
highlighter == <<keywords_var, inclusion_keywords, abstract_text,
                 article_display>>
history == <<decisions, verdicts, midflight>>
vars == <<all_articles, current_index, included_articles, excluded_articles,
          search_button, progress, pc, w_max_results, search_threads, calls,
          search_results_csv, BIOPYTHON_AVAILABLE, request, exported,
          keywords_var, inclusion_keywords, abstract_text, article_display,
          lastOp, report,
          decisions, verdicts, midflight>>

\* ------------------------------------------------------------------ records
\* dict.get('Decision_Date') of an article that has none
NoDate == 0

\* parse_pubmed_record / parse_pubmed_xml return None when parsing raises
NoneArticle ==
    [Sr_No |-> 0, Source |-> "None", Status |-> "None", Decision_Date |-> NoDate]

IsNone(a) == a.Source = "None"

\* parse_pubmed_record(record, sr_no): the dict built from a well-formed
\* record, None from one whose parsing raises
parse_pubmed_record(well_formed, sr_no) ==
    IF well_formed
    THEN [Sr_No |-> sr_no, Source |-> "PubMed", Status |-> "Pending",
          Decision_Date |-> NoDate]
    ELSE NoneArticle

\* the loop of search_pubmed (lines 309-315) and of search_pubmed_direct
\* (lines 369-375): for i, record in enumerate(records): parse(record, i + 1),
\* and the result is appended whatever it is
parse_records(records) ==
    [k \in 1..Len(records) |-> parse_pubmed_record(records[k], k)]

\* one entry of the log of source calls: the source, whether the call returned
\* without an exception, and how many list entries it delivered
Call(source, ok, got) == [source |-> source, ok |-> ok, got |-> got]

\* search_pubmed_direct: the requests strategy. An exception is caught (line
\* 377) and the articles collected so far are returned: none, as the records
\* of one search come in one fetch (fewer than batch_size ids)
search_pubmed_direct(direct_ok, records) ==
    LET articles == IF direct_ok THEN parse_records(records) ELSE <<>>
    IN  [articles |-> articles,
         calls |-> <<Call("direct", direct_ok, Len(articles))>>]

\* mutant of search_pubmed: a failing Biopython strategy ends the search of
\* the source, the direct strategy is not tried after it
search_pubmed_no_fallback(available, primary_ok, direct_ok, records) ==
    IF available
    THEN [articles |-> IF primary_ok THEN parse_records(records) ELSE <<>>,
          calls |-> <<Call("biopython", primary_ok,
                           IF primary_ok THEN Len(records) ELSE 0)>>]
    ELSE search_pubmed_direct(direct_ok, records)

\* search_pubmed: the Biopython strategy when the module is available, and
\* the direct strategy when it is not or when Biopython raises (line 320)
search_pubmed(available, primary_ok, direct_ok, records) ==
    IF available
    THEN IF primary_ok
         THEN [articles |-> parse_records(records),
               calls |-> <<Call("biopython", TRUE, Len(records))>>]
         ELSE LET fallback == search_pubmed_direct(direct_ok, records)
              IN  [articles |-> fallback.articles,
                   calls |-> <<Call("biopython", FALSE, 0)>> \o fallback.calls]
    ELSE search_pubmed_direct(direct_ok, records)

\* mutant of cochrane_article: the numbering starts again at 1 for the file
cochrane_article_restart(base, i) ==
    [Sr_No |-> i + 1, Source |-> "Cochrane", Status |-> "Pending",
     Decision_Date |-> NoDate]

\* the dict load_cochrane_csv builds for row i (0-based) of the file
cochrane_article(base, i) ==
    [Sr_No |-> base + i + 1, Source |-> "Cochrane", Status |-> "Pending",
     Decision_Date |-> NoDate]

RECURSIVE cochrane_rows(_, _, _)
\* rows i.. of the file: a row whose processing raises is skipped (continue)
cochrane_rows(rows, base, i) ==
    IF i >= Len(rows) THEN <<>>
    ELSE (IF rows[i + 1] THEN <<cochrane_article(base, i)>> ELSE <<>>)
         \o cochrane_rows(rows, base, i + 1)

\* load_cochrane_csv(filename): readable = pd.read_csv succeeded; Sr_No
\* counts on from len(self.all_articles)
load_cochrane_csv(readable, rows, base) ==
    IF readable THEN cochrane_rows(rows, base, 0) ELSE <<>>

BoolSeqs(n) == UNION {[1..k -> BOOLEAN] : k \in 0..n}

\* ------------------------------------------------------------------ review
\* the guard of include_article / exclude_article
CursorValid == all_articles # <<>> /\ 0 <= current_index
                 /\ current_index < Len(all_articles)

\* next_article: the index after the call
NextIndex(idx, n) == IF idx < n - 1 THEN idx + 1 ELSE idx

\* mutant of PrevIndex: the guard current_index > 0 left out
PrevIndexNoFloor(idx) == idx - 1

\* previous_article: the index after the call
PrevIndex(idx) == IF idx > 0 THEN idx - 1 ELSE idx

\* mutant of Snapshot: the copy is not given the time of the decision
SnapshotUndated(article, verdict, date) ==
    [article EXCEPT !.Status = verdict]

\* article.copy() with Status and Decision_Date overwritten
Snapshot(article, verdict, date) ==
    [article EXCEPT !.Status = verdict, !.Decision_Date = date]

\* mutant of SetStatus: the status is written one article too early
SetStatusOffByOne(articles, idx, verdict) ==
    [articles EXCEPT ![IF idx >= 1 THEN idx ELSE 1].Status = verdict]

\* self.all_articles[self.current_index]['Status'] = verdict
SetStatus(articles, idx, verdict) ==
    [articles EXCEPT ![idx + 1].Status = verdict]

\* mutant of Record: a new snapshot replaces the article's earlier one
RecordReplacing(decided, snap) ==
    Append(SelectSeq(decided, LAMBDA d : d.Sr_No # snap.Sr_No), snap)

\* list.append of the decision snapshot
Record(decided, snap) == Append(decided, snap)

\* display_current_article raises (article['Title'] of None) when the article
\* under the cursor is None
DisplayRaises(articles, idx) ==
    /\ articles # <<>>
    /\ idx < Len(articles)
    /\ IsNone(articles[idx + 1])

\* what next_article surfaces: the "Screening Complete" box, or the traceback
\* of update_screening_display
NextReport(articles, idx) ==
    IF idx < Len(articles) - 1
    THEN (IF DisplayRaises(articles, idx + 1) THEN "exception" ELSE "none")
    ELSE "complete"

\* the form as start_search read it: search terms and email non-empty after
\* strip(), int(max_results_var) not raising
Request(terms_ok, email_ok, numeric) ==
    [made |-> TRUE, terms_ok |-> terms_ok, email_ok |-> email_ok,
     numeric |-> numeric]

\* no start_search since the last other handler or thread step
NoRequest ==
    [made |-> FALSE, terms_ok |-> FALSE, email_ok |-> FALSE, numeric |-> FALSE]

\* the search has not called df.to_csv('search_results.csv')
NotWritten == [written |-> FALSE, Sr_No |-> <<>>]

\* df.to_csv('search_results.csv') of the list, by its Sr_No column
to_csv(articles) ==
    [written |-> TRUE,
     Sr_No |-> [k \in DOMAIN articles |-> articles[k].Sr_No]]

\* save_search_results: the file after the call; nothing is written for an
\* empty list (line 575)
save_search_results(articles, file) ==
    IF articles # <<>> THEN to_csv(articles) ELSE file

\* no file written by the handler that ran last
NotExported == [written |-> FALSE, rows |-> <<>>]

\* df.to_csv(filename) of an export: one file with a row per dict
Exported(rows) == [written |-> TRUE, rows |-> rows]

\* a list of article dicts only
WellFormedList(articles) == \A k \in DOMAIN articles : ~IsNone(articles[k])

\* the review session, the search thread and the files after __init__
InitReview ==
    /\ all_articles = <<>>
    /\ current_index = 0
    /\ included_articles = <<>>
    /\ excluded_articles = <<>>
    /\ search_button = "normal"
    /\ progress = "ready"
    /\ pc = "idle"
    /\ w_max_results = 0
    /\ search_threads = 0
    /\ calls = <<>>
    /\ search_results_csv = NotWritten
    /\ BIOPYTHON_AVAILABLE \in BOOLEAN
    /\ request = NoRequest
    /\ exported = NotExported
    /\ lastOp = "init"
    /\ report = "none"
    /\ decisions = 0
    /\ verdicts = [i \in 1..MaxBatch |-> "None"]
    /\ midflight = FALSE

\* the state after construction, with nothing typed into the keywords entry
\* and nothing displayed
Init ==
    /\ InitReview
    /\ keywords_var = <<>>
    /\ inclusion_keywords = <<>>
    /\ abstract_text = <<>>
    /\ article_display = <<>>

\* the timestamps recorded so far
Dates ==
    {included_articles[k].Decision_Date : k \in DOMAIN included_articles}
      \cup {excluded_articles[k].Decision_Date : k \in DOMAIN excluded_articles}

\* datetime.now() at a decision: the second of the latest recorded decision or
\* a later one. Timestamps are only ever compared with each other, so a later
\* second is the next one.
Now ==
    IF Dates = {} THEN {1}
    ELSE LET last == CHOOSE d \in Dates : \A e \in Dates : e <= d
         IN  {last, last + 1}

\* include_article (verdict "Included") / exclude_article ("Excluded")
Decide(verdict, op) ==
    /\ lastOp' = op
    /\ request' = NoRequest
    /\ UNCHANGED highlighter
    /\ exported' = NotExported
    /\ UNCHANGED <<worker, platform>>
    /\ IF ~CursorValid
       THEN /\ report' = "none"
            /\ UNCHANGED <<session, history>>
       ELSE IF IsNone(all_articles[current_index + 1])
       THEN \* None.copy() raises AttributeError in the callback
            /\ report' = "exception"
            /\ UNCHANGED <<session, history>>
       ELSE /\ Len(included_articles) + Len(excluded_articles) < MaxDecisions
            /\ \E date \in Now :
               LET snap == Snapshot(all_articles[current_index + 1], verdict, date)
               IN  IF verdict = "Included"
                   THEN /\ included_articles' = Record(included_articles, snap)
                        /\ UNCHANGED excluded_articles
                   ELSE /\ excluded_articles' = Record(excluded_articles, snap)
                        /\ UNCHANGED included_articles
            /\ all_articles' = SetStatus(all_articles, current_index, verdict)
            /\ current_index' = NextIndex(current_index, Len(all_articles))
            /\ report' = NextReport(all_articles, current_index)
            /\ decisions' = decisions + 1
            /\ verdicts' = [verdicts EXCEPT ![current_index + 1] = verdict]
            /\ midflight' = (midflight \/ pc # "idle")

include_article == Decide("Included", "include")

exclude_article == Decide("Excluded", "exclude")

next_article ==
    /\ lastOp' = "next"
    /\ current_index' = NextIndex(current_index, Len(all_articles))
    /\ report' = NextReport(all_articles, current_index)
    /\ request' = NoRequest
    /\ UNCHANGED highlighter
    /\ exported' = NotExported
    /\ UNCHANGED <<all_articles, included_articles, excluded_articles,
                   worker, platform, history>>

previous_article ==
    /\ lastOp' = "previous"
    /\ current_index' = PrevIndex(current_index)
    /\ report' = IF current_index > 0
                    /\ DisplayRaises(all_articles, current_index - 1)
                 THEN "exception" ELSE "none"
    /\ request' = NoRequest
    /\ UNCHANGED highlighter
    /\ exported' = NotExported
    /\ UNCHANGED <<all_articles, included_articles, excluded_articles,
                   worker, platform, history>>

\* the Start Search button invokes its command only in state "normal"
\* (disabled at line 241, normal again at line 286)
CanStartAlways == TRUE

CanStart == search_button = "normal"

\* mutant of Valid: int(self.max_results_var.get()) is not guarded
ValidIgnoringNumber(terms_ok, email_ok, numeric) == terms_ok /\ email_ok

\* start_search, lines 226-238: the three checks that end in an error box and
\* return
Valid(terms_ok, email_ok, numeric) == terms_ok /\ email_ok /\ numeric

\* start_search: the command of the Start Search button
start_search ==
    /\ CanStart
    /\ \E terms_ok \in BOOLEAN, email_ok \in BOOLEAN, numeric \in BOOLEAN,
          max_results \in -1..MaxBatch :
         /\ lastOp' = "start_search"
         /\ request' = Request(terms_ok, email_ok, numeric)
         /\ UNCHANGED highlighter
         /\ exported' = NotExported
         /\ UNCHANGED <<session, platform, history>>
         /\ IF ~Valid(terms_ok, email_ok, numeric)
            THEN \* messagebox.showerror and return
                 /\ report' = "error"
                 /\ UNCHANGED worker
            ELSE /\ search_button' = "disabled"
                 /\ progress' = "searching"
                 /\ pc' = "clear"
                 /\ w_max_results' = max_results
                 /\ search_threads' = search_threads + 1
                 /\ report' = "none"
                 /\ UNCHANGED calls

\* perform_search, line 252: self.all_articles = []
perform_search_clear ==
    /\ pc = "clear"
    /\ all_articles' = <<>>
    /\ pc' = "pubmed"
    /\ lastOp' = "perform_search"
    /\ request' = NoRequest
    /\ UNCHANGED highlighter
    /\ exported' = NotExported
    /\ decisions' = 0
    /\ verdicts' = [i \in DOMAIN verdicts |-> "None"]
    /\ midflight' = FALSE
    /\ search_results_csv' = NotWritten
    /\ UNCHANGED <<current_index, included_articles, excluded_articles,
                   search_button, progress, w_max_results, search_threads,
                   calls, BIOPYTHON_AVAILABLE, report>>

\* the record lists the search provider can answer with: at most retmax
\* records when retmax is a count
ProviderAnswers(max_results) ==
    IF max_results >= 0
    THEN BoolSeqs(IF max_results < MaxBatch THEN max_results ELSE MaxBatch)
    ELSE BoolSeqs(MaxBatch)

\* perform_search, lines 255-260: the PubMed source
perform_search_pubmed ==
    /\ pc = "pubmed"
    /\ \E pubmed_var \in BOOLEAN, primary_ok \in BOOLEAN, direct_ok \in BOOLEAN,
          records \in ProviderAnswers(w_max_results) :
         IF pubmed_var
         THEN LET pubmed == search_pubmed(BIOPYTHON_AVAILABLE, primary_ok,
                                          direct_ok, records)
              IN  /\ all_articles' = all_articles \o pubmed.articles
                  /\ calls' = calls \o pubmed.calls
                  /\ progress' = "found_pubmed"
         ELSE UNCHANGED <<all_articles, calls, progress>>
    /\ pc' = "cochrane"
    /\ w_max_results' = 0    \* max_results is not read after line 257
    /\ lastOp' = "perform_search"
    /\ request' = NoRequest
    /\ UNCHANGED highlighter
    /\ exported' = NotExported
    /\ UNCHANGED <<current_index, included_articles, excluded_articles,
                   search_button, search_threads, platform, report, history>>

\* perform_search, lines 263-268: the Cochrane CSV source
perform_search_cochrane ==
    /\ pc = "cochrane"
    /\ \E cochrane_var \in BOOLEAN, readable \in BOOLEAN,
          rows \in BoolSeqs(MaxBatch - Len(all_articles)) :
         IF cochrane_var
         THEN LET cochrane_articles ==
                      load_cochrane_csv(readable, rows, Len(all_articles))
              IN  /\ all_articles' = all_articles \o cochrane_articles
                  /\ calls' = Append(calls, Call("csv", readable,
                                                 Len(cochrane_articles)))
                  /\ progress' = "loaded_cochrane"
                  /\ report' = IF readable THEN report ELSE "error"
         ELSE UNCHANGED <<all_articles, calls, progress, report>>
    /\ pc' = "save"
    /\ lastOp' = "perform_search"
    /\ request' = NoRequest
    /\ UNCHANGED highlighter
    /\ exported' = NotExported
    /\ UNCHANGED <<current_index, included_articles, excluded_articles,
                   search_button, w_max_results, search_threads, platform,
                   history>>

\* display_search_results raises (article['Source'] of None) when the list
\* holds a None
DisplayResultsRaises(articles) ==
    \E k \in DOMAIN articles : IsNone(articles[k])

\* the thread ends without the finally clause of line 285
ThreadEndsButtonDisabled ==
    /\ UNCHANGED search_button
    /\ pc' = "idle"
    /\ w_max_results' = 0
    /\ search_threads' = search_threads - 1
    /\ calls' = <<>>

\* the thread ends: the button is normal again (line 286, finally)
ThreadEnds ==
    /\ search_button' = "normal"
    /\ pc' = "idle"
    /\ w_max_results' = 0
    /\ search_threads' = search_threads - 1
    /\ calls' = <<>>

\* mutant of Outcome: the empty list raises like any other failure
OutcomeEmptyRaises(articles, sink_ok) ==
    IF articles = <<>> \/ ~sink_ok \/ DisplayResultsRaises(articles)
    THEN "error" ELSE "completed"

\* perform_search, lines 270-284, how the search ends: "No articles found"
\* for the empty list; else the except branch when to_csv fails to write or
\* the list holds a None (the DataFrame or the display raises); else "Search
\* completed!"
Outcome(articles, sink_ok) ==
    IF articles = <<>> THEN "no_articles"
    ELSE IF ~sink_ok \/ DisplayResultsRaises(articles) THEN "error"
    ELSE "completed"

\* perform_search, lines 271-274 and 279-286: save and display the batch, or
\* report "No articles found"; the except branch shows the "Search Error" box
perform_search_save ==
    /\ pc = "save"
    /\ lastOp' = "perform_search"
    /\ request' = NoRequest
    /\ UNCHANGED highlighter
    /\ exported' = NotExported
    /\ UNCHANGED <<session, history, BIOPYTHON_AVAILABLE>>
    /\ \E sink_ok \in BOOLEAN :
       LET outcome == Outcome(all_articles, sink_ok)
       IN  /\ progress' = outcome
           /\ IF outcome = "no_articles"
              THEN /\ report' = report
                   /\ UNCHANGED search_results_csv
                   /\ ThreadEnds
              ELSE IF outcome = "error"
              THEN /\ report' = "error"
                   \* with a None in the list the file is written unless
                   \* the DataFrame raises before
                   /\ search_results_csv' \in
                        IF sink_ok
                        THEN {search_results_csv,
                              save_search_results(all_articles,
                                                  search_results_csv)}
                        ELSE {search_results_csv}
                   /\ ThreadEnds
              ELSE /\ search_results_csv' =
                        save_search_results(all_articles, search_results_csv)
                   /\ pc' = "reset"
                   /\ UNCHANGED <<report, search_button, w_max_results,
                                  search_threads, calls>>

\* the index perform_search gives the review of a new batch (line 277)
FirstIndex == 0

\* perform_search, lines 277-278 and 286: initialize screening, re-enable the
\* button
perform_search_reset ==
    /\ pc = "reset"
    /\ current_index' = FirstIndex
    /\ ThreadEnds
    /\ lastOp' = "perform_search"
    /\ request' = NoRequest
    /\ UNCHANGED highlighter
    /\ exported' = NotExported
    /\ UNCHANGED <<all_articles, included_articles, excluded_articles,
                   progress, platform, report, history>>

\* mutant of NoData: the exports do not test for an empty list
NoDataNever(rows) == FALSE

\* the guard of the three exports (lines 789, 819, 834): `if not <list>`
NoData(rows) == rows = <<>>

\* the snapshots of the list an article's status names
DecidedAs(article, included, excluded) ==
    IF article.Status = "Included" THEN included
    ELSE IF article.Status = "Excluded" THEN excluded
    ELSE <<>>

\* mutant of BackFill: the date of the last snapshot with the article's Sr_No
BackFillLatest(article, included, excluded) ==
    LET decided == DecidedAs(article, included, excluded)
        hits == {k \in DOMAIN decided : decided[k].Sr_No = article.Sr_No}
    IN  IF hits = {} THEN article
        ELSE [article EXCEPT !.Decision_Date =
                 decided[CHOOSE k \in hits : \A h \in hits : h <= k].Decision_Date]

\* export_all_results, lines 795-807: an Included (Excluded) article gets the
\* Decision_Date of the first snapshot with its Sr_No in the included
\* (excluded) list (break); a Pending one, or one with no such snapshot, is
\* left as it is
BackFill(article, included, excluded) ==
    LET decided == DecidedAs(article, included, excluded)
        hits == {k \in DOMAIN decided : decided[k].Sr_No = article.Sr_No}
    IN  IF hits = {} THEN article
        ELSE [article EXCEPT !.Decision_Date =
                 decided[CHOOSE k \in hits : \A h \in hits : k <= h].Decision_Date]

\* the list after the loop of export_all_results has run over articles 1..n
BackFilled(articles, n, included, excluded) ==
    [k \in DOMAIN articles |->
        IF k <= n THEN BackFill(articles[k], included, excluded)
        ELSE articles[k]]

\* export_all_results: the Export All Results button
export_all_results ==
    /\ lastOp' = "export_all"
    /\ request' = NoRequest
    /\ UNCHANGED highlighter
    /\ UNCHANGED <<current_index, included_articles, excluded_articles,
                   worker, platform, history>>
    /\ IF NoData(all_articles)
       THEN \* messagebox.showwarning("No Data", ...) and return
            /\ report' = "no_data"
            /\ exported' = NotExported
            /\ UNCHANGED all_articles
       ELSE IF ~WellFormedList(all_articles)
       THEN \* article['Status'] of the first None raises in the loop, the
            \* articles before it are back-filled already; the "Export Error"
            \* box shows the TypeError
            LET none == CHOOSE k \in DOMAIN all_articles :
                          /\ IsNone(all_articles[k])
                          /\ \A h \in 1..(k - 1) : ~IsNone(all_articles[h])
            IN  /\ all_articles' = BackFilled(all_articles, none - 1,
                                       included_articles, excluded_articles)
                /\ report' = "export_type_error"
                /\ exported' = NotExported
       ELSE \E sink_ok \in BOOLEAN :
            /\ all_articles' = BackFilled(all_articles, Len(all_articles),
                                   included_articles, excluded_articles)
            /\ IF sink_ok
               THEN /\ exported' = Exported(all_articles')
                    /\ report' = "exported"
               ELSE \* to_csv raises: "Export Error"
                    /\ exported' = NotExported
                    /\ report' = "export_error"

\* export_included (export_excluded): the file of the snapshots of a list
ExportDecided(decided, op) ==
    /\ lastOp' = op
    /\ request' = NoRequest
    /\ UNCHANGED highlighter
    /\ UNCHANGED <<session, worker, platform, history>>
    /\ IF NoData(decided)
       THEN \* messagebox.showwarning("No Data", ...) and return
            /\ report' = "no_data"
            /\ exported' = NotExported
       ELSE \E sink_ok \in BOOLEAN :
            IF sink_ok
            THEN /\ exported' = Exported(decided)
                 /\ report' = "exported"
            ELSE /\ exported' = NotExported
                 /\ report' = "export_error"

export_included == ExportDecided(included_articles, "export_included")

export_excluded == ExportDecided(excluded_articles, "export_excluded")

\* ---------------------------------------------------------------------
\* Keywords and highlighting.  A text is a sequence of one-character
\* strings, so that case, order and emptiness of every part are checked.

\* bounds of the texts and of the keywords entry drawn in InitHighlight
MaxText == 3
MaxField == 3

TextChars == {"a", "A", "b"}
FieldChars == {"a", "B", ",", " "}

\* "Cancer treatment options" and the entry "cancer"
ExampleText ==
    <<"C", "a", "n", "c", "e", "r", " ", "t", "r", "e", "a", "t", "m", "e",
      "n", "t", " ", "o", "p", "t", "i", "o", "n", "s">>
ExampleField == <<"c", "a", "n", "c", "e", "r">>

Strings(chars, n) == UNION {[1..k -> chars] : k \in 0..n}
Texts == Strings(TextChars, MaxText) \cup {ExampleText}
Fields == Strings(FieldChars, MaxField) \cup {ExampleField}

\* str.lower() on the characters of the model
Lower(c) ==
    CASE c = "A" -> "a"
      [] c = "B" -> "b"
      [] c = "C" -> "c"
      [] OTHER -> c

lower(s) == [k \in DOMAIN s |-> Lower(s[k])]

RECURSIVE lstrip(_)
lstrip(s) == IF s # <<>> /\ Head(s) = " " THEN lstrip(Tail(s)) ELSE s

RECURSIVE rstrip(_)
rstrip(s) ==
    IF s # <<>> /\ s[Len(s)] = " "
    THEN rstrip(SubSeq(s, 1, Len(s) - 1))
    ELSE s

strip(s) == rstrip(lstrip(s))

\* str.split(','): the pieces between the commas, empty pieces included
RECURSIVE split(_)
split(s) ==
    IF \E k \in DOMAIN s : s[k] = ","
    THEN LET k == CHOOSE j \in DOMAIN s :
                      /\ s[j] = ","
                      /\ \A h \in 1..(j - 1) : s[h] # ","
         IN  <<SubSeq(s, 1, k - 1)>> \o split(SubSeq(s, k + 1, Len(s)))
    ELSE <<s>>

NonEmpty(piece) == piece # <<>>

\* the list update_keywords stores for the text of the entry
Keywords(keywords_text) ==
    IF strip(keywords_text) = <<>>
    THEN <<>>
    ELSE LET pieces == split(strip(keywords_text))
         IN  SelectSeq([k \in DOMAIN pieces |-> lower(strip(pieces[k]))],
                       NonEmpty)

\* the pattern matches only where the case is the same (no re.IGNORECASE)
MatchesAtSameCase(text, pos, keyword) ==
    /\ pos + Len(keyword) - 1 <= Len(text)
    /\ SubSeq(text, pos, pos + Len(keyword) - 1) = keyword

\* re.escape(keyword) matches at pos under re.IGNORECASE
MatchesAt(text, pos, keyword) ==
    /\ pos + Len(keyword) - 1 <= Len(text)
    /\ lower(SubSeq(text, pos, pos + Len(keyword) - 1)) = lower(keyword)

\* the alternative of '|'.join(patterns) that matches at pos: the first
\* one in the order of the list, 0 if none does
Alternative(text, pos, keywords) ==
    IF \E j \in DOMAIN keywords : MatchesAt(text, pos, keywords[j])
    THEN CHOOSE j \in DOMAIN keywords :
             /\ MatchesAt(text, pos, keywords[j])
             /\ \A h \in 1..(j - 1) : ~MatchesAt(text, pos, keywords[h])
    ELSE 0

\* re.split without the capturing group: the matched text is dropped
RECURSIVE re_split_no_group(_, _, _, _)
re_split_no_group(text, pos, start, keywords) ==
    IF pos > Len(text)
    THEN <<SubSeq(text, start, Len(text))>>
    ELSE LET j == Alternative(text, pos, keywords)
         IN  IF j = 0
             THEN re_split_no_group(text, pos + 1, start, keywords)
             ELSE <<SubSeq(text, start, pos - 1)>>
                  \o re_split_no_group(text, pos + Len(keywords[j]),
                                       pos + Len(keywords[j]), keywords)

\* re.split(f'({pattern})', text, flags=re.IGNORECASE), scanning from pos
\* with the unmatched piece beginning at start: piece, match, piece, ...,
\* piece; the pieces before, between and after matches may be empty
RECURSIVE re_split(_, _, _, _)
re_split(text, pos, start, keywords) ==
    IF pos > Len(text)
    THEN <<SubSeq(text, start, Len(text))>>
    ELSE LET j == Alternative(text, pos, keywords)
         IN  IF j = 0
             THEN re_split(text, pos + 1, start, keywords)
             ELSE <<SubSeq(text, start, pos - 1),
                    SubSeq(text, pos, pos + Len(keywords[j]) - 1)>>
                  \o re_split(text, pos + Len(keywords[j]),
                              pos + Len(keywords[j]), keywords)

Part(text, tag) == [text |-> text, tag |-> tag]

\* the inserts of insert_text_with_highlights(text, tag), in order
insert_text_with_highlights(text, tag, keywords) ==
    IF keywords = <<>>
    THEN <<Part(text, tag)>>
    ELSE LET parts == re_split(text, 1, 1, keywords)
         IN  [k \in DOMAIN parts |->
                 IF \E j \in DOMAIN keywords :
                        lower(parts[k]) = lower(keywords[j])
                 THEN Part(parts[k], "highlight")
                 ELSE Part(parts[k], tag)]

\* what display_current_article leaves in the abstract part of the widget
Displayed(keywords) ==
    IF CursorValid /\ ~DisplayRaises(all_articles, current_index)
    THEN insert_text_with_highlights(abstract_text, "abstract", keywords)
    ELSE <<>>

update_keywords ==
    /\ lastOp' = "update_keywords"
    /\ inclusion_keywords' = Keywords(keywords_var)
    /\ IF CursorValid
       THEN article_display' = Displayed(inclusion_keywords')
       ELSE UNCHANGED article_display
    /\ report' = IF DisplayRaises(all_articles, current_index)
                 THEN "exception" ELSE "none"
    /\ request' = NoRequest
    /\ exported' = NotExported
    /\ UNCHANGED <<keywords_var, abstract_text, session, worker, platform,
                   history>>

\* a refresh of the display (update_screening_display, line 631)
display_current_article ==
    /\ lastOp' = "display"
    /\ article_display' = Displayed(inclusion_keywords)
    /\ report' = IF DisplayRaises(all_articles, current_index)
                 THEN "exception" ELSE "none"
    /\ request' = NoRequest
    /\ exported' = NotExported
    /\ UNCHANGED <<keywords_var, inclusion_keywords, abstract_text, session,
                   worker, platform, history>>

Next ==
    \/ start_search
    \/ perform_search_clear
    \/ perform_search_pubmed
    \/ perform_search_cochrane
    \/ perform_search_save
    \/ perform_search_reset
    \/ include_article
    \/ exclude_article
    \/ next_article
    \/ previous_article
    \/ export_all_results
    \/ export_included
    \/ export_excluded

Spec == Init /\ [][Next]_vars

\* the thread started at line 244: whichever statement it is at
perform_search ==
    \/ perform_search_clear
    \/ perform_search_pubmed
    \/ perform_search_cochrane
    \/ perform_search_save
    \/ perform_search_reset

\* The search thread next to the handlers of the review, which read and
\* write the list and the cursor it replaces.  The thread is scheduled: it
\* is not left forever at a statement it can execute (the requests of the
\* direct path carry timeouts, lines 341 and 363; a call or a dialog that
\* never returns is outside this specification).
NextSearch ==
    \/ start_search
    \/ perform_search_clear
    \/ perform_search_pubmed
    \/ perform_search_cochrane
    \/ perform_search_save
    \/ perform_search_reset
    \/ include_article
    \/ exclude_article
    \/ next_article
    \/ previous_article

FairSpec == Init /\ [][NextSearch]_vars /\ WF_vars(perform_search)

\* The highlighter on its inputs.  One article has been retrieved and is
\* displayed (the state in which a search that loaded one Cochrane row
\* ends); its abstract and the text of the keywords entry are drawn from
\* the bounded sets.
Loaded ==
    /\ all_articles = <<cochrane_article(0, 0)>>
    /\ current_index = FirstIndex
    /\ included_articles = <<>>
    /\ excluded_articles = <<>>
    /\ search_button = "normal"
    /\ progress = "completed"
    /\ pc = "idle"
    /\ w_max_results = 0
    /\ search_threads = 0
    /\ calls = <<>>
    /\ search_results_csv = to_csv(all_articles)
    /\ request = NoRequest
    /\ exported = NotExported
    /\ lastOp = "perform_search"
    /\ report = "none"
    /\ decisions = 0
    /\ verdicts = [i \in 1..MaxBatch |-> "None"]
    /\ midflight = FALSE

InitHighlight ==
    /\ Loaded
    /\ BIOPYTHON_AVAILABLE = TRUE
    /\ keywords_var \in Fields
    /\ inclusion_keywords = <<>>
    /\ abstract_text \in Texts
    /\ article_display = <<>>

NextHighlight ==
    \/ update_keywords
    \/ display_current_article

SpecHighlight == InitHighlight /\ [][NextHighlight]_vars
\* ------------------------------------------------------------------ states
\* the states of the review session, by the cursor
Empty == all_articles = <<>>
Reviewing == CursorValid
Complete == all_articles # <<>> /\ current_index >= Len(all_articles)

\* no search thread is running
Quiet == pc = "idle"

\* the list holds article dicts only
WellFormed == \A k \in DOMAIN all_articles : ~IsNone(all_articles[k])

Decided(op) == op \in {"include", "exclude"}
VerdictOf(op) == IF op = "include" THEN "Included" ELSE "Excluded"

\* the article under the cursor
Current == all_articles[current_index + 1]

\* decided' is decided with exactly one snapshot of article a, status v, added
\* at the end
AppendsSnapshot(decided, decidedNext, a, v) ==
    /\ Len(decidedNext) = Len(decided) + 1
    /\ SubSeq(decidedNext, 1, Len(decided)) = decided
    /\ decidedNext[Len(decidedNext)] =
         [a EXCEPT !.Status = v,
                   !.Decision_Date = decidedNext[Len(decidedNext)].Decision_Date]

HasSnapshot(decided, sr_no) ==
    \E k \in DOMAIN decided : decided[k].Sr_No = sr_no

\* ------------------------------------------------------------------ claims

\* C1: when a search thread has completed ("Search completed!") and no
\* decision was taken while it ran, the cursor is 0 and the included and the
\* excluded list are empty: no snapshot of an earlier batch is left.
C1_LoadResetsSession ==
    (lastOp = "perform_search" /\ Quiet /\ progress = "completed"
        /\ decisions = 0)
        => /\ current_index = 0
           /\ included_articles = <<>>
           /\ excluded_articles = <<>>

\* C2: with no search running and the cursor on article i of a well-formed
\* list, include() (exclude()) appends exactly one snapshot of article i with
\* status Included (Excluded) to its list, sets the live status, leaves the
\* other list and the other articles alone, and moves the cursor to i + 1.
C2_DecideRecordsAndAdvances ==
    [][(Decided(lastOp') /\ Quiet /\ WellFormed /\ Reviewing)
        => /\ all_articles' =
                [all_articles EXCEPT ![current_index + 1].Status = VerdictOf(lastOp')]
           /\ IF lastOp' = "include"
              THEN /\ AppendsSnapshot(included_articles, included_articles',
                                      Current, "Included")
                   /\ UNCHANGED excluded_articles
              ELSE /\ AppendsSnapshot(excluded_articles, excluded_articles',
                                      Current, "Excluded")
                   /\ UNCHANGED included_articles
           /\ current_index' = current_index + 1]_vars

\* C3: include() or exclude() with the cursor on the last article records the
\* decision and leaves the session Complete: the cursor past the last article.
C3_DecideOnLastCompletes ==
    [][(Decided(lastOp') /\ Quiet /\ WellFormed /\ Reviewing
            /\ current_index = Len(all_articles) - 1)
        => /\ Len(included_articles') + Len(excluded_articles')
                = Len(included_articles) + Len(excluded_articles) + 1
           /\ Complete']_vars

\* C4: once "Screening Complete" has been shown (the last article was decided
\* or stepped past) and nothing else has run since, include() and exclude()
\* append nothing to either list and change no article.
C4_NoDecisionOnceComplete ==
    [][(report = "complete" /\ lastOp \in {"include", "exclude", "next"}
            /\ Quiet /\ WellFormed /\ ~Empty /\ Decided(lastOp'))
        => UNCHANGED <<all_articles, included_articles, excluded_articles>>]_vars
\* C5 as stated: an article's status changes only from Pending, to Included
\* or to Excluded. Stated for the articles before the last one, which the
\* cursor comes back to by previous() only when every decision was taken
\* with no search running.
C5_StatusOnlyLeavesPending ==
    [][\A i \in DOMAIN all_articles :
         (i \in DOMAIN all_articles' /\ i < Len(all_articles)
             /\ Quiet /\ WellFormed /\ ~midflight
             /\ all_articles'[i].Status # all_articles[i].Status)
           => /\ all_articles[i].Status = "Pending"
              /\ all_articles'[i].Status \in {"Included", "Excluded"}]_vars

\* C5 as amended: an article's status changes only in include() / exclude()
\* with the cursor on it, and becomes that handler's verdict, whatever it was
\* before; so it never returns to Pending.
C5_StatusFollowsDecision ==
    [][\A i \in DOMAIN all_articles :
         (i \in DOMAIN all_articles'
             /\ all_articles'[i].Status # all_articles[i].Status)
           => /\ Decided(lastOp')
              /\ i = current_index + 1
              /\ all_articles'[i].Status = VerdictOf(lastOp')]_vars

\* C5 witness: the first article of a batch of two was excluded and, after
\* previous(), included, both in the session of the loaded batch
C5_Witness ==
    /\ lastOp = "include"
    /\ Quiet /\ WellFormed /\ ~midflight
    /\ Len(all_articles) = 2
    /\ current_index = 1
    /\ decisions = Len(included_articles) + Len(excluded_articles)
    /\ all_articles[1].Status = "Included"
    /\ verdicts[1] = "Included"
    /\ HasSnapshot(excluded_articles, all_articles[1].Sr_No)

\* C6: include() / exclude() on an article that is already decided appends one
\* new snapshot of it to the verdict's list and leaves every earlier snapshot,
\* of either list, in place.
C6_RedecisionAppendsOnly ==
    [][(Decided(lastOp') /\ Reviewing /\ ~IsNone(Current)
            /\ Current.Status \in {"Included", "Excluded"})
        => IF lastOp' = "include"
           THEN /\ AppendsSnapshot(included_articles, included_articles',
                                   Current, "Included")
                /\ UNCHANGED excluded_articles
           ELSE /\ AppendsSnapshot(excluded_articles, excluded_articles',
                                   Current, "Excluded")
                /\ UNCHANGED included_articles]_vars

\* C6 witness: in a batch of two, the first article was included, previous()
\* went back to it and exclude() decided it again: its sequence number is in
\* both lists
C6_Witness ==
    /\ lastOp = "exclude"
    /\ Quiet /\ WellFormed /\ ~midflight
    /\ Len(all_articles) = 2
    /\ current_index = 1
    /\ decisions = 2
    /\ all_articles[1].Status = "Excluded"
    /\ all_articles[2].Status = "Pending"
    /\ HasSnapshot(included_articles, all_articles[1].Sr_No)
    /\ HasSnapshot(excluded_articles, all_articles[1].Sr_No)

\* C7: with no search running, every Included article of the list has a
\* snapshot with its sequence number in the included list, every Excluded one
\* in the excluded list, and a Pending one in neither.
C7_ListsAgreeWithStatus ==
    (Quiet /\ WellFormed) =>
        \A i \in DOMAIN all_articles :
            LET a == all_articles[i]
            IN  /\ a.Status = "Included" => HasSnapshot(included_articles, a.Sr_No)
                /\ a.Status = "Excluded" => HasSnapshot(excluded_articles, a.Sr_No)
                /\ a.Status = "Pending" =>
                     /\ ~HasSnapshot(included_articles, a.Sr_No)
                     /\ ~HasSnapshot(excluded_articles, a.Sr_No)

\* C8: with no search running, the two lists together hold at most as many
\* snapshots as decisions were taken since the list was replaced, and every
\* decided article has the status of the latest decision on it.
C8_ListsBoundedByDecisions ==
    Quiet =>
        /\ Len(included_articles) + Len(excluded_articles) <= decisions
        /\ \A i \in DOMAIN all_articles :
             all_articles[i].Status \in {"Included", "Excluded"}
                => all_articles[i].Status = verdicts[i]

\* C9: next() leaves the list and both decision lists alone; before the last
\* index it moves the cursor on by one, at the last index it leaves the
\* session Complete, and in Complete it leaves the cursor where it is.
C9_NextAdvancesOrCompletes ==
    [][(lastOp' = "next" /\ Quiet /\ WellFormed /\ ~Empty)
        => /\ UNCHANGED <<all_articles, included_articles, excluded_articles>>
           /\ current_index < Len(all_articles) - 1
                => current_index' = current_index + 1
           /\ current_index = Len(all_articles) - 1 => Complete'
           /\ Complete => current_index' = current_index]_vars

\* C10: previous() lowers a cursor above 0 by exactly one, leaves a cursor at
\* 0 where it is, never makes it negative, and changes neither the list nor
\* either decision list.
C10_PreviousStepsBack ==
    [][lastOp' = "previous"
        => /\ current_index' =
                IF current_index > 0 THEN current_index - 1 ELSE current_index
           /\ current_index' >= 0
           /\ UNCHANGED <<all_articles, included_articles, excluded_articles>>]_vars

\* C10 witness: previous() has run on a reviewed batch of two and the cursor
\* is on the first article, which is decided
C10_Witness ==
    /\ lastOp = "previous"
    /\ Quiet /\ WellFormed /\ ~midflight
    /\ Len(all_articles) = 2
    /\ current_index = 0
    /\ all_articles[1].Status # "Pending"

\* C11: with no search running and no article loaded, include(), exclude(),
\* next() and previous() raise nothing and leave the article list, the cursor
\* and both decision lists as they were.
C11_EmptySessionNoOp ==
    [][(Empty /\ Quiet
            /\ lastOp' \in {"include", "exclude", "next", "previous"})
        => /\ report' # "exception"
           /\ UNCHANGED session]_vars

\* C12: in every state the cursor is an index of the list or the position
\* past its end: 0 <= current_index <= len(all_articles).
C12_CursorInRange ==
    current_index \in 0..Len(all_articles)

\* the search thread has replaced the list and has not yet saved the batch
Aggregating == pc \in {"pubmed", "cochrane", "save"}

\* C13: while the search thread is aggregating, include() and exclude()
\* record no decision: they change neither the list nor a decision list.
C13_NoDecisionWhileAggregating ==
    [][(Aggregating /\ Decided(lastOp'))
        => UNCHANGED <<all_articles, included_articles,
                       excluded_articles>>]_vars

\* C14: there is never more than one search thread; a thread is started
\* only when none is running; and within a thread no PubMed strategy is called
\* once the Cochrane CSV has been read.
C14_OneWorkerSourcesInOrder ==
    [][/\ search_threads' \in {0, 1}
       /\ search_threads' > search_threads
            => (pc = "idle" /\ search_threads = 0)
       /\ (pc' = "idle") = (search_threads' = 0)
       /\ \A i \in DOMAIN calls', j \in DOMAIN calls' :
            (i < j /\ calls'[i].source = "csv")
               => calls'[j].source \notin {"biopython", "direct"}]_vars

\* C14 witness: a later search (a decision of an earlier batch is on record)
\* has called Biopython, then the direct strategy, then read the CSV, and is
\* the one thread running
C14_Witness ==
    /\ pc = "save"
    /\ search_threads = 1
    /\ included_articles # <<>> /\ decisions = 0 /\ ~midflight
    /\ Len(calls) = 3
    /\ calls[1].source = "biopython"
    /\ calls[2].source = "direct"
    /\ calls[3].source = "csv"

\* an entry search_pubmed delivered: an article dict, or the None of a record
\* that did not parse
FromProvider(a) == a.Source \in {"PubMed", "None"}

\* C15: at every moment the Sr_No of the articles of the list are strictly
\* increasing along the list (so pairwise distinct); every PubMed entry comes
\* before every Cochrane entry; the k-th PubMed entry has Sr_No k; and the
\* Sr_No of a Cochrane entry counts on from the number of PubMed entries: it
\* is above that number and not below the entry's own position.
C15_SequenceNumbersIncrease ==
    LET provider_count ==
            Cardinality({i \in DOMAIN all_articles : FromProvider(all_articles[i])})
    IN  /\ \A i \in DOMAIN all_articles, j \in DOMAIN all_articles :
             (i < j /\ ~IsNone(all_articles[i]) /\ ~IsNone(all_articles[j]))
                => all_articles[i].Sr_No < all_articles[j].Sr_No
        /\ \A i \in DOMAIN all_articles, j \in DOMAIN all_articles :
             (i < j /\ all_articles[i].Source = "Cochrane")
                => all_articles[j].Source = "Cochrane"
        /\ \A k \in DOMAIN all_articles :
             /\ all_articles[k].Source = "PubMed" => all_articles[k].Sr_No = k
             /\ all_articles[k].Source = "Cochrane"
                  => /\ all_articles[k].Sr_No > provider_count
                     /\ all_articles[k].Sr_No >= k

\* C15 witness: the direct strategy delivered a record that did not parse and
\* then the CSV a row, which is numbered 2
C15_Witness ==
    /\ pc = "save"
    /\ Len(all_articles) = 2
    /\ IsNone(all_articles[1])
    /\ all_articles[2].Source = "Cochrane"
    /\ all_articles[2].Sr_No = 2
    /\ Len(calls) = 2 /\ calls[1].source = "direct"

\* C16: the list holds article dicts only: a PubMed record that does not
\* parse leaves no entry in it.
C16_UnparsedRecordSkipped ==
    \A k \in DOMAIN all_articles : ~IsNone(all_articles[k])

\* the number of entries the running thread's call of a source delivered (0
\* when the source was not called)
GotFrom(source) ==
    IF \E k \in DOMAIN calls : calls[k].source = source
    THEN calls[CHOOSE k \in DOMAIN calls : calls[k].source = source].got
    ELSE 0

\* C17: a failed Biopython call is followed by a call of the direct strategy;
\* a failed call delivers nothing; and when the thread has called its sources
\* the list holds exactly what the calls delivered: as many PubMed entries as
\* the successful strategy returned (none when the direct strategy failed,
\* the CSV rows then being the whole list) and as many Cochrane entries as
\* the CSV call returned (none when the file was unreadable, the PubMed
\* entries then being the whole list).
C17_SourceFailureKeepsOtherSource ==
    /\ \A k \in DOMAIN calls :
         /\ (calls[k].source = "biopython" /\ ~calls[k].ok)
              => (k < Len(calls) /\ calls[k + 1].source = "direct")
         /\ ~calls[k].ok => calls[k].got = 0
    /\ pc = "save" =>
         /\ Cardinality({i \in DOMAIN all_articles :
                            FromProvider(all_articles[i])})
              = GotFrom("biopython") + GotFrom("direct")
         /\ Cardinality({i \in DOMAIN all_articles :
                            all_articles[i].Source = "Cochrane"})
              = GotFrom("csv")

\* C17 witness: Biopython and then the direct strategy failed, the CSV
\* delivered two rows, and they are the list
C17_Witness ==
    /\ pc = "save"
    /\ Len(calls) = 3
    /\ calls[1] = Call("biopython", FALSE, 0)
    /\ calls[2] = Call("direct", FALSE, 0)
    /\ calls[3] = Call("csv", TRUE, 2)
    /\ Len(all_articles) = 2

\* C17, the other source failing: the CSV was unreadable and the one PubMed
\* entry is the list
C17_UnreadableReached ==
    /\ pc = "save"
    /\ Len(calls) = 2
    /\ calls[2] = Call("csv", FALSE, 0)
    /\ Len(all_articles) = 1

\* C18: when the thread has called its sources and the list is empty, its
\* next step ends it with "No articles found": the list stays empty, no
\* "Search Error" box is shown and the progress line is not "Error: ...".
C18_EmptyBatchNoResults ==
    [][(pc = "save" /\ all_articles = <<>> /\ lastOp' = "perform_search")
        => /\ progress' = "no_articles"
           /\ report' = report
           /\ Empty' /\ Quiet']_vars

\* C18 witness: a search over a session that held a decided batch has ended
\* with "No articles found" and an empty list
C18_Witness ==
    /\ lastOp = "perform_search"
    /\ Quiet /\ Empty
    /\ progress = "no_articles"
    /\ report # "error"
    /\ included_articles # <<>>

\* C19: a search that has aggregated its list and does not end on the error
\* path has written the whole list to 'search_results.csv', an empty list
\* too; and the file is written when the cursor is about to be reset.
C19_SnapshotAlwaysWritten ==
    /\ pc = "reset" => search_results_csv = to_csv(all_articles)
    /\ (Quiet /\ lastOp = "perform_search" /\ progress # "error")
         => search_results_csv = to_csv(all_articles)

\* C20: start_search with empty search terms, an empty email or a max-results
\* text that is no number shows an error box and returns: no thread is
\* started, the button, the progress line, the list, the cursor and both
\* decision lists are as before.
C20_InvalidRequestRejected ==
    [][(lastOp' = "start_search"
            /\ (~request'.terms_ok \/ ~request'.email_ok \/ ~request'.numeric))
        => /\ report' = "error"
           /\ UNCHANGED <<session, worker>>]_vars

\* C20 witness: with a batch loaded and one decision taken, a request whose
\* max-results text is no number has been rejected
C20_Witness ==
    /\ lastOp = "start_search"
    /\ request = Request(TRUE, TRUE, FALSE)
    /\ report = "error"
    /\ Quiet /\ search_threads = 0 /\ search_button = "normal"
    /\ all_articles # <<>>
    /\ included_articles # <<>>

\* C21: start_search starts a search thread only with a positive max-results
\* value: a value that parses as zero or as a negative integer is rejected.
C21_CapIsPositive ==
    [][(lastOp' = "start_search" /\ pc' = "clear") => w_max_results' > 0]_vars

\* C22: export_included with an empty included list, and export_excluded
\* with an empty excluded list, show the "No Data" warning, write no file and
\* leave the list, the cursor and both decision lists as they were.
C22_EmptyExportNoData ==
    [][((lastOp' = "export_included" /\ included_articles = <<>>)
           \/ (lastOp' = "export_excluded" /\ excluded_articles = <<>>))
        => /\ report' = "no_data"
           /\ ~exported'.written
           /\ UNCHANGED session]_vars

\* C22 witness: with a batch loaded and an article excluded, export_included
\* has answered "No Data"
C22_Witness ==
    /\ lastOp = "export_included"
    /\ report = "no_data"
    /\ ~exported.written
    /\ included_articles = <<>>
    /\ excluded_articles # <<>>
    /\ all_articles # <<>>

\* C23: with no search running, export_all_results on a list that holds at
\* least one article writes one file with as many rows as the list has
\* entries, unless the write of the file itself fails.
C23_ExportAllWritesBatch ==
    [][(lastOp' = "export_all" /\ Quiet
            /\ (\E k \in DOMAIN all_articles : ~IsNone(all_articles[k]))
            /\ report' # "export_error")
        => /\ exported'.written
           /\ Len(exported'.rows) = Len(all_articles)]_vars

Exports == {"export_all", "export_included", "export_excluded"}

\* C24: an export whose file write fails leaves the list with every field of
\* every article, the cursor and both decision lists as they were before the
\* export. Stated for a well-formed list with no search running.
C24_FailedExportChangesNothing ==
    [][(lastOp' \in Exports /\ report' = "export_error"
            /\ Quiet /\ WellFormed /\ ~midflight)
        => UNCHANGED session]_vars

\* C25 as stated: once an article of the loaded batch carries a Decision_Date
\* it keeps that date under include, exclude, previous, next and the exports.
\* Stated for the articles before the last one, with no search running.
C25_TimestampSetOnce ==
    [][\A i \in DOMAIN all_articles :
         (lastOp' # "perform_search" /\ i < Len(all_articles)
             /\ Quiet /\ WellFormed /\ ~midflight
             /\ all_articles[i].Decision_Date # NoDate)
           => all_articles'[i].Decision_Date
                = all_articles[i].Decision_Date]_vars

\* the snapshots of the first n entries of a decision list are left as they are
KeepsSnapshots(decided, decidedNext) ==
    /\ Len(decidedNext) >= Len(decided)
    /\ \A k \in DOMAIN decided : decidedNext[k] = decided[k]
    /\ \A k \in DOMAIN decidedNext : decidedNext[k].Decision_Date # NoDate

\* C25 as amended: a snapshot gets its Decision_Date when include / exclude
\* creates it, and no operation changes or removes a snapshot afterwards; an
\* article of the list gets a Decision_Date only from export_all_results,
\* which gives it the date of a snapshot with its Sr_No in the list its status
\* names, in place of the date it had.
C25_SnapshotTimestampsFixed ==
    [][/\ KeepsSnapshots(included_articles, included_articles')
       /\ KeepsSnapshots(excluded_articles, excluded_articles')
       /\ \A i \in DOMAIN all_articles :
            (i \in DOMAIN all_articles'
                /\ all_articles'[i].Decision_Date # all_articles[i].Decision_Date)
              => \/ lastOp' = "perform_search"
                 \/ /\ lastOp' = "export_all"
                    /\ LET decided == DecidedAs(all_articles[i],
                                         included_articles, excluded_articles)
                       IN  \E k \in DOMAIN decided :
                             /\ decided[k].Sr_No = all_articles[i].Sr_No
                             /\ decided[k].Decision_Date
                                  = all_articles'[i].Decision_Date]_vars

\* C25 witness: in a batch of two the first article was included at time 1,
\* then excluded at time 2 after previous(), and export_all_results has given
\* it the date 2
C25_Witness ==
    /\ lastOp = "export_all"
    /\ Quiet /\ WellFormed /\ ~midflight
    /\ Len(all_articles) = 2
    /\ decisions = 2
    /\ all_articles[1].Status = "Excluded"
    /\ all_articles[1].Decision_Date = 2
    /\ Len(included_articles) = 1 /\ included_articles[1].Decision_Date = 1
    /\ Len(excluded_articles) = 1 /\ excluded_articles[1].Decision_Date = 2
\* the snapshots of both decision lists that carry the sequence number
SnapshotsOf(n) ==
    {included_articles[k] : k \in {h \in DOMAIN included_articles :
                                       included_articles[h].Sr_No = n}}
    \cup {excluded_articles[k] : k \in {h \in DOMAIN excluded_articles :
                                            excluded_articles[h].Sr_No = n}}

\* the date of the latest decision recorded for the sequence number
LatestDecision(n) ==
    CHOOSE d \in {snap.Decision_Date : snap \in SnapshotsOf(n)} :
        \A snap \in SnapshotsOf(n) : snap.Decision_Date <= d

\* C28: in the file of the full-batch export every decided article carries
\* the date of its own most recent decision and every Pending article
\* carries none, also after re-decisions and after a second retrieval.
C28_ExportCarriesLatestDecision ==
    [][(lastOp' = "export_all" /\ report' = "exported" /\ Quiet
        /\ WellFormed /\ ~midflight)
       => \A k \in DOMAIN exported'.rows :
              IF exported'.rows[k].Status = "Pending"
              THEN exported'.rows[k].Decision_Date = NoDate
              ELSE exported'.rows[k].Decision_Date
                       = LatestDecision(exported'.rows[k].Sr_No)]_vars

\* update_results_summary, update_results_preview: the pending count shown
pending == Len(all_articles) - Len(included_articles)
               - Len(excluded_articles)

\* C29: the pending count shown is never negative and is the number of
\* articles of the loaded batch whose status is Pending.
C29_PendingCountIsPending ==
    (Quiet /\ WellFormed /\ ~midflight)
        => /\ pending >= 0
           /\ pending = Cardinality({k \in DOMAIN all_articles :
                                         all_articles[k].Status = "Pending"})

\* ---------------------------------------------------------------------
\* Highlighting (SpecHighlight)

RECURSIVE Concatenation(_)
Concatenation(parts) ==
    IF parts = <<>>
    THEN <<>>
    ELSE Head(parts).text \o Concatenation(Tail(parts))

\* insert_text_with_highlights has run on abstract_text
Rendered == article_display # <<>>

\* C26: for every text and every keyword list, the texts of the parts the
\* highlighter inserts, concatenated in order, are the input text, character
\* for character and in its original casing.
C26_SpansGiveBackText ==
    Rendered => Concatenation(article_display) = abstract_text

\* a text cut into three parts or more, one of them a highlighted match
\* that is not in lower case
C26_Witness ==
    /\ lastOp = "update_keywords"
    /\ Len(article_display) >= 3
    /\ \E k \in DOMAIN article_display :
           /\ article_display[k].tag = "highlight"
           /\ article_display[k].text # lower(article_display[k].text)
    /\ Concatenation(article_display) = abstract_text

\* the keyword occurs in the text, whatever the case of the text
Occurs(keyword, text) ==
    \E from \in 1..Len(text) : \E to \in from..Len(text) :
        lower(SubSeq(text, from, to)) = keyword

IsKeyword(text) ==
    \E j \in DOMAIN inclusion_keywords : lower(text) = inclusion_keywords[j]

\* a part is highlighted exactly when its lower-case form is a keyword, and
\* no keyword occurs in a part that is not highlighted
Classified ==
    \A k \in DOMAIN article_display :
        /\ article_display[k].tag = "highlight"
               <=> IsKeyword(article_display[k].text)
        /\ article_display[k].tag # "highlight"
               => \A j \in DOMAIN inclusion_keywords :
                      ~Occurs(inclusion_keywords[j], article_display[k].text)

ExampleRendered ==
    /\ Rendered
    /\ abstract_text = ExampleText
    /\ inclusion_keywords = <<ExampleField>>

Cancer == Part(SubSeq(ExampleText, 1, 6), "highlight")
TreatmentOptions == Part(SubSeq(ExampleText, 7, 24), "abstract")

\* C27 as stated: "Cancer treatment options" with the keyword "cancer" is
\* cut into exactly the two parts ("Cancer", match) and (" treatment
\* options", no match) and no other part; a part is marked match exactly
\* when its lower-case form is a keyword, and no part marked no-match
\* contains a keyword.
C27_ExampleTwoSpans ==
    /\ ExampleRendered => article_display = <<Cancer, TreatmentOptions>>
    /\ Classified

\* C27, amended: the example is cut into three parts, an empty no-match
\* part before the match at the start of the text, then ("Cancer", match)
\* and (" treatment options", no match); the parts alternate no-match,
\* match, ..., no-match whenever there are keywords, and the no-match parts
\* may be empty; the classification holds as stated.
C27_ExampleThreeParts ==
    /\ ExampleRendered
           => article_display
                  = <<Part(<<>>, "abstract"), Cancer, TreatmentOptions>>
    /\ (Rendered /\ inclusion_keywords # <<>>)
           => /\ Len(article_display) % 2 = 1
              /\ \A k \in DOMAIN article_display :
                     article_display[k].tag = "highlight" <=> k % 2 = 0
    /\ Classified

C27_Witness ==
    /\ ExampleRendered
    /\ lastOp = "update_keywords"
    /\ keywords_var = ExampleField
    /\ Len(article_display) = 3
    /\ article_display[1].text = <<>>

\* ---------------------------------------------------------------------
\* Termination of the search thread (FairSpec)

====
